---- MODULE Spec2Model ----
(***************************************************************************)
(* A model of the iterative DNS resolver of dns_resolver/src: the          *)
(* resolution loop of resolve (lib.rs), and the name codec                 *)
(* encode_dns_name / decode_name / decode_compressed_name (lib.rs).        *)
(*                                                                         *)
(* Four specifications share the module:                                   *)
(*   Spec       the resolution engine: resolve, its loop and its nested    *)
(*              calls, against an arbitrary transport and arbitrary        *)
(*              nameservers;                                               *)
(*   SpecCodec  the name codec, applied to bounded names and buffers;      *)
(*   SpecParse  the packet parser (dns_packet.rs, dns_record.rs,           *)
(*              dns_question.rs, dns_header.rs) on bounded messages;       *)
(*   SpecReferral  the resolution engine against nameservers that only     *)
(*              ever refer, with the fairness of a running program.        *)
(***************************************************************************)
EXTENDS Integers, Sequences, FiniteSets, TLC

VARIABLES
    status,       \* "idle" | "sending" | "receiving" | "returned" | "panicked" | "stack overflow"
    stack,        \* the call stack of resolve: one frame per active invocation, innermost last
    result,       \* what the top-level resolve returned (Result<Ipv4Addr, Box<dyn Error>>)
    lastQuery,    \* the last query handed to send_query, and the depth of the invocation sending it
    lastResp,     \* what send_query made of it: a panic, an Err, or a parsed DNSPacket
    lastRet,      \* the value an invocation of resolve returned on the last response, if one did
    nq,           \* number of queries issued so far
    labels,       \* codec input: the labels the domain name is made of
    domain_name,  \* codec input: the dotted name, a string of bytes
    encoded,      \* encode_dns_name(domain_name)
    data,         \* codec input: the buffer handed to decode_name
    cursor,       \* codec input: the cursor handed to decode_name
    decoded,      \* the outcome of decode_name
    phase,        \* which codec operation ran last
    msg,          \* parser input: the message a nameserver sent (header counts, entries)
    response_buffer, \* the bytes handed to the parser
    parse_cursor, \* the cursor handed to DNSRecord::parse
    parsed,       \* the outcome of DNSPacket::try_from or DNSRecord::parse
    pphase        \* which parser operation ran last

vars == <<status, stack, result, lastQuery, lastResp, lastRet, nq,
          labels, domain_name, encoded, data, cursor, decoded, phase,
          msg, response_buffer, parse_cursor, parsed, pphase>>

resolverVars == <<status, stack, result, lastQuery, lastResp, lastRet, nq>>
codecVars == <<labels, domain_name, encoded, data, cursor, decoded, phase>>
parserVars == <<msg, response_buffer, parse_cursor, parsed, pphase>>

(***************************************************************************)
(* Bounds of the model.                                                    *)
(***************************************************************************)
MaxQueries == 3     \* queries one run of resolve may issue
MaxRecords == 2     \* records one response holds, over its three sections

(***************************************************************************)
(* Option and Result values.                                               *)
(***************************************************************************)
None == [tag |-> "None"]
Some(x) == [tag |-> "Some", val |-> x]
Ok(x) == [tag |-> "Ok", val |-> x]
Err(e) == [tag |-> "Err", err |-> e]

(***************************************************************************)
(* Addresses, names and record types.                                      *)
(***************************************************************************)
ROOT_SERVER == <<198, 41, 0, 4>>
AddrA == <<93, 184, 216, 34>>
AddrB == <<192, 5, 6, 30>>
Addrs == {AddrA, AddrB}

Domains == {"example.com", "a.gtld-servers.net"}

RecordType == {"A", "NS", "CNAME", "NotImplemented"}

\* RecordData as DNSRecord::parse builds it from the record's type
RecordDataA(ip) == [tag |-> "A", ip |-> ip]
RecordDataNS(name) == [tag |-> "NS", name |-> name]
RecordDataOther == [tag |-> "Other"]

RecordDataOf(type_, addr, target) ==
    IF type_ = "A" THEN RecordDataA(addr)
    ELSE IF type_ \in {"NS", "CNAME"} THEN RecordDataNS(target)
    ELSE RecordDataOther

\* the records a nameserver may put on the wire: owner name, type, and the
\* RDATA read as an address (type A) or as a name (NS, CNAME)
WireRecords ==
    [name : Domains, type_ : {"A"}, addr : Addrs, target : {"example.com"}]
    \cup [name : {"example.com"}, type_ : {"NS"}, addr : {AddrA}, target : Domains]
    \cup [name : {"example.com"}, type_ : {"CNAME"}, addr : {AddrA}, target : {"example.com"}]
    \cup [name : {"example.com"}, type_ : {"NotImplemented"}, addr : {AddrA}, target : {"example.com"}]

DNSRecord_parse(w) ==
    [name |-> w.name, type_ |-> w.type_, data |-> RecordDataOf(w.type_, w.addr, w.target)]

SeqsUpTo(S, n) == UNION {[1..k -> S] : k \in 0..n}

\* the responses a nameserver may send: at most MaxRecords wire records, cut
\* into the answer, authority and additional sections
WirePackets ==
    {[answers |-> SubSeq(rs, 1, i),
      authorities |-> SubSeq(rs, i + 1, j),
      additionals |-> SubSeq(rs, j + 1, Len(rs))] :
        <<rs, i, j>> \in {t \in SeqsUpTo(WireRecords, MaxRecords)
                                  \X (0..MaxRecords) \X (0..MaxRecords) :
                            t[2] <= t[3] /\ t[3] <= Len(t[1])}}

DNSPacket_try_from(w) ==
    [answers |-> [i \in DOMAIN w.answers |-> DNSRecord_parse(w.answers[i])],
     authorities |-> [i \in DOMAIN w.authorities |-> DNSRecord_parse(w.authorities[i])],
     additionals |-> [i \in DOMAIN w.additionals |-> DNSRecord_parse(w.additionals[i])]]

(***************************************************************************)
(* The three section scans of resolve.                                     *)
(***************************************************************************)
\* iter().find(|record| matches!(record.data(), RecordData::<tag>(_)))
RECURSIVE find_data(_, _, _)
find_data(records, tag, i) ==
    IF i > Len(records) THEN None
    ELSE IF records[i].data.tag = tag THEN Some(records[i])
    ELSE find_data(records, tag, i + 1)

RECURSIVE find_data_last(_, _, _)
find_data_last(records, tag, i) ==
    IF i < 1 THEN None
    ELSE IF records[i].data.tag = tag THEN Some(records[i])
    ELSE find_data_last(records, tag, i - 1)

\* a faulty variant of get_answer: the last A record of the answer section
get_answer_last(packet) == find_data_last(packet.answers, "A", Len(packet.answers))

\* a faulty variant of get_answer: the additional section is searched as well
get_answer_any_section(packet) ==
    find_data(packet.answers \o packet.additionals, "A", 1)

get_answer(packet) == find_data(packet.answers, "A", 1)

\* a faulty variant of get_name_server_ip: the last A record of the additional section
get_name_server_ip_last(packet) ==
    LET r == find_data_last(packet.additionals, "A", Len(packet.additionals))
    IN  IF r = None THEN None ELSE Some(r.val.data.ip)

get_name_server_ip(packet) ==
    LET r == find_data(packet.additionals, "A", 1)
    IN  IF r = None THEN None ELSE Some(r.val.data.ip)

\* a faulty variant of get_name_server: the additional section is searched
get_name_server_additionals(packet) ==
    LET r == find_data(packet.additionals, "NS", 1)
    IN  IF r = None THEN None ELSE Some(r.val.data.name)

get_name_server(packet) ==
    LET r == find_data(packet.authorities, "NS", 1)
    IN  IF r = None THEN None ELSE Some(r.val.data.name)

(***************************************************************************)
(* resolve: one frame per invocation.                                      *)
(***************************************************************************)
NewFrame(domain, rtype) ==
    [domain_name |-> domain, record_type |-> rtype, name_server_ip |-> ROOT_SERVER]

Top == stack[Len(stack)]
Callers == SubSeq(stack, 1, Len(stack) - 1)

NoQuery == [tag |-> "None"]
NoResp == [kind |-> "none"]

QueryOf(frame, depth) ==
    [ip |-> frame.name_server_ip, domain_name |-> frame.domain_name,
     record_type |-> frame.record_type, depth |-> depth]

InitResolver ==
    /\ status = "idle"
    /\ stack = <<>>
    /\ result = None
    /\ lastQuery = NoQuery
    /\ lastResp = NoResp
    /\ lastRet = None
    /\ nq = 0

InitCodecIdle ==
    /\ labels = <<>>
    /\ domain_name = <<>>
    /\ encoded = <<>>
    /\ data = <<>>
    /\ cursor = 0
    /\ decoded = None
    /\ phase = "init"

InitParserIdle ==
    /\ msg = None
    /\ response_buffer = <<>>
    /\ parse_cursor = 0
    /\ parsed = None
    /\ pphase = "init"

Init == InitResolver /\ InitCodecIdle /\ InitParserIdle

\* the top-level call resolve(domain_name, record_type)
Resolve ==
    /\ status = "idle"
    /\ \E domain \in {"example.com"}, rtype \in {"A", "NS"} :
          stack' = <<NewFrame(domain, rtype)>>
    /\ status' = "sending"
    /\ UNCHANGED <<result, lastQuery, lastResp, lastRet, nq>>
    /\ UNCHANGED codecVars
    /\ UNCHANGED parserVars

\* send_query, first half: build_query, bind and send_to succeed for the
\* innermost frame, and the call blocks in recv_from
SendQuery ==
    /\ status = "sending"
    /\ nq < MaxQueries
    /\ lastQuery' = QueryOf(Top, Len(stack))
    /\ lastResp' = NoResp
    /\ lastRet' = None
    /\ nq' = nq + 1
    /\ status' = "receiving"
    /\ UNCHANGED <<stack, result>>
    /\ UNCHANGED codecVars
    /\ UNCHANGED parserVars

\* send_query: bind or send_to fails and expect() panics
SendPanic ==
    /\ status = "sending"
    /\ nq < MaxQueries
    /\ lastResp' = [kind |-> "transport_failure"]
    /\ lastRet' = None
    /\ status' = "panicked"
    /\ UNCHANGED <<stack, result, lastQuery, nq>>
    /\ UNCHANGED codecVars
    /\ UNCHANGED parserVars

\* send_query: recv_from fails and expect() panics
RecvPanic ==
    /\ status = "receiving"
    /\ lastResp' = [kind |-> "transport_failure"]
    /\ status' = "panicked"
    /\ UNCHANGED <<stack, result, lastQuery, lastRet, nq>>
    /\ UNCHANGED codecVars
    /\ UNCHANGED parserVars

\* send_query: DNSPacket::try_from panics on the received bytes
ParsePanic ==
    /\ status = "receiving"
    /\ lastResp' = [kind |-> "parse_panic"]
    /\ status' = "panicked"
    /\ UNCHANGED <<stack, result, lastQuery, lastRet, nq>>
    /\ UNCHANGED codecVars
    /\ UNCHANGED parserVars

\* send_query: DNSPacket::try_from returns Err, which `?` hands up every frame
ParseErr ==
    /\ status = "receiving"
    /\ lastResp' = [kind |-> "parse_err"]
    /\ lastRet' = Some(Err("parse"))
    /\ result' = Some(Err("parse"))
    /\ stack' = <<>>
    /\ status' = "returned"
    /\ UNCHANGED <<lastQuery, nq>>
    /\ UNCHANGED codecVars
    /\ UNCHANGED parserVars

\* the rest of the loop iteration, on a parsed packet
Decide(packet) ==
    LET answer == get_answer(packet)
        glue == get_name_server_ip(packet)
        ns_domain == get_name_server(packet)
    IN  IF answer # None
        THEN \* return Ok(*ip)
             /\ lastRet' = Some(Ok(answer.val.data.ip))
             /\ IF Len(stack) = 1
                THEN /\ stack' = <<>>
                     /\ result' = Some(Ok(answer.val.data.ip))
                     /\ status' = "returned"
                ELSE \* name_server_ip = resolve(ns_domain, RecordType::A)?
                     /\ stack' = [Callers EXCEPT ![Len(stack) - 1].name_server_ip =
                                                    answer.val.data.ip]
                     /\ status' = "sending"
                     /\ UNCHANGED result
        ELSE IF glue # None
        THEN /\ stack' = [stack EXCEPT ![Len(stack)].name_server_ip = glue.val]
             /\ status' = "sending"
             /\ UNCHANGED <<result, lastRet>>
        ELSE IF ns_domain # None
        THEN /\ stack' = Append(stack, NewFrame(ns_domain.val, "A"))
             /\ status' = "sending"
             /\ UNCHANGED <<result, lastRet>>
        ELSE \* panic!("Expected packet")
             /\ status' = "panicked"
             /\ UNCHANGED <<stack, result, lastRet>>

\* send_query returns the parsed packet and resolve inspects it
Receive ==
    /\ status = "receiving"
    /\ \E w \in WirePackets :
          LET packet == DNSPacket_try_from(w)
          IN  /\ lastResp' = [kind |-> "packet", packet |-> packet]
              /\ Decide(packet)
    /\ UNCHANGED <<lastQuery, nq>>
    /\ UNCHANGED codecVars
    /\ UNCHANGED parserVars

Next ==
    \/ Resolve
    \/ SendQuery
    \/ SendPanic
    \/ RecvPanic
    \/ ParsePanic
    \/ ParseErr
    \/ Receive

Spec == Init /\ [][Next]_vars

(***************************************************************************)
(* resolve against nameservers that only ever refer it on.  Nothing in     *)
(* resolve counts hops or nesting, so the only end of the nesting is the   *)
(* call stack: it holds StackFrames invocations of resolve, and one more   *)
(* overflows it and aborts the process.                                    *)
(***************************************************************************)
StackFrames == 3

\* responses that are a usable referral and no answer: at most one record
\* in each section, in the answer section none or a CNAME record, and a
\* type-A additional record or a type-NS authority record
UsableReferrals ==
    {w \in [answers : SeqsUpTo({r \in WireRecords : r.type_ = "CNAME"}, 1),
            authorities : SeqsUpTo(WireRecords, 1),
            additionals : SeqsUpTo(WireRecords, 1)] :
        \/ \E i \in DOMAIN w.additionals : w.additionals[i].type_ = "A"
        \/ \E i \in DOMAIN w.authorities : w.authorities[i].type_ = "NS"}

\* send_query: the query goes out, however many went out before
SendQueryAgain ==
    /\ status = "sending"
    /\ lastQuery' = QueryOf(Top, Len(stack))
    /\ lastResp' = NoResp
    /\ lastRet' = None
    /\ nq' = IF nq < MaxQueries THEN nq + 1 ELSE nq
    /\ status' = "receiving"
    /\ UNCHANGED <<stack, result>>
    /\ UNCHANGED codecVars
    /\ UNCHANGED parserVars

\* the nested call resolve(ns_domain, RecordType::A) needs a frame the stack
\* has no room for
NestsBeyondStack(packet) ==
    /\ get_answer(packet) = None
    /\ get_name_server_ip(packet) = None
    /\ get_name_server(packet) # None
    /\ Len(stack) >= StackFrames

\* send_query returns a referral and resolve inspects it
ReceiveReferral ==
    /\ status = "receiving"
    /\ \E w \in UsableReferrals :
          LET packet == DNSPacket_try_from(w)
          IN  /\ lastResp' = [kind |-> "packet", packet |-> packet]
              /\ IF NestsBeyondStack(packet)
                 THEN /\ status' = "stack overflow"
                      /\ UNCHANGED <<stack, result, lastRet>>
                 ELSE Decide(packet)
    /\ UNCHANGED <<lastQuery, nq>>
    /\ UNCHANGED codecVars
    /\ UNCHANGED parserVars

NextReferral ==
    \/ Resolve
    \/ SendQueryAgain
    \/ ReceiveReferral

\* resolve runs on whenever it can, and every query is answered
SpecReferral == Init /\ [][NextReferral]_vars /\ WF_vars(NextReferral)

(***************************************************************************)
(* The name codec.  A string is a sequence of bytes.                       *)
(***************************************************************************)
MaxLabels == 2      \* labels of an encoded domain name
MaxBuf == 5         \* bytes of a buffer handed to decode_name

DOT == 46

RECURSIVE BitAnd(_, _)
BitAnd(a, b) ==
    IF a = 0 \/ b = 0 THEN 0
    ELSE (a % 2) * (b % 2) + 2 * BitAnd(a \div 2, b \div 2)

\* str::split('.'): the pieces between the dots; the empty string is one empty piece
split(s) ==
    LET dots == {i \in DOMAIN s : s[i] = DOT}
        \* where the k-th piece starts and ends: after the (k-1)-th dot, before the k-th
        dot(k) == IF k = 0 THEN 0
                  ELSE IF k > Cardinality(dots) THEN Len(s) + 1
                  ELSE CHOOSE i \in dots : Cardinality({j \in dots : j < i}) = k - 1
    IN  [k \in 1..(Cardinality(dots) + 1) |-> SubSeq(s, dot(k - 1) + 1, dot(k) - 1)]

\* [String]::join(".")
RECURSIVE join(_)
join(parts) ==
    IF parts = <<>> THEN <<>>
    ELSE IF Len(parts) = 1 THEN parts[1]
    ELSE parts[1] \o <<DOT>> \o join(Tail(parts))

\* a faulty variant of length_byte: the length is cut to the 6 bits of a label length
length_byte_6bit(label) == Len(label) % 64

\* label.len() as u8
length_byte(label) == Len(label) % 256

RECURSIVE encode_fold(_, _)
encode_fold(acc, pieces) ==
    IF pieces = <<>> THEN acc
    ELSE encode_fold(acc \o <<length_byte(Head(pieces))>> \o Head(pieces), Tail(pieces))

encode_dns_name(name) == Append(encode_fold(<<>>, split(name)), 0)

\* String::from_utf8: is the byte string well-formed UTF-8
Continuation(b) == b \in 128..191

\* the validation goes character by character, a run of ASCII at a stride
RECURSIVE is_utf8(_, _)
is_utf8(b, from) ==
    LET high == {j \in from..Len(b) : b[j] >= 128}
    IN  IF high = {} THEN TRUE
        ELSE LET i == CHOOSE j \in high : \A k \in high : j <= k
             IN  IF b[i] \in 194..223
                 THEN i + 1 <= Len(b) /\ Continuation(b[i + 1]) /\ is_utf8(b, i + 2)
                 ELSE IF b[i] \in 224..239
                 THEN /\ i + 2 <= Len(b)
                      /\ b[i + 1] \in (IF b[i] = 224 THEN 160..191
                                       ELSE IF b[i] = 237 THEN 128..159 ELSE 128..191)
                      /\ Continuation(b[i + 2])
                      /\ is_utf8(b, i + 3)
                 ELSE IF b[i] \in 240..244
                 THEN /\ i + 3 <= Len(b)
                      /\ b[i + 1] \in (IF b[i] = 240 THEN 144..191
                                       ELSE IF b[i] = 244 THEN 128..143 ELSE 128..191)
                      /\ Continuation(b[i + 2])
                      /\ Continuation(b[i + 3])
                      /\ is_utf8(b, i + 4)
                 ELSE FALSE

\* the ways decode_name ends other than by returning: a panic (an index or a
\* slice out of range, unwrap on a label that is not UTF-8) and the stack
\* overflow of a recursion that never ends
Panic(why) == [tag |-> "Panic", why |-> why]
StackOverflow == [tag |-> "StackOverflow"]

\* a faulty variant of is_pointer: the mask covers one bit more
is_pointer_3bits(length) == BitAnd(length, 224) # 0

\* length & 0b11000000 != 0
is_pointer(length) == BitAnd(length, 192) # 0

\* u16::from_be_bytes([buf[cursor] & 0b00111111, buf[cursor + 1]])
pointer_of(b0, b1) == BitAnd(b0, 63) * 256 + b1

\* decode_name(data, cursor) with its loop unrolled: current_pos and parts
\* are the loop's variables, positions count from 0 as in the source.
\* active holds the cursors of the calls of decode_name on the stack: a
\* call with a cursor that is already there repeats that call's work and so
\* recurses for ever, which ends in a stack overflow.
RECURSIVE decode_name_from(_, _, _, _, _)
decode_name_from(buf, start_cursor, current_pos, parts, active) ==
    IF current_pos >= Len(buf) THEN Panic("index out of bounds")
    ELSE LET length == buf[current_pos + 1]
         IN  IF length = 0
             THEN Ok([name |-> join(parts), consumed |-> current_pos + 1 - start_cursor])
             ELSE IF is_pointer(length)
             THEN \* decode_compressed_name(data, current_pos)
                  IF current_pos + 1 >= Len(buf) THEN Panic("index out of bounds")
                  ELSE LET pointer == pointer_of(length, buf[current_pos + 2])
                       IN  IF pointer \in active THEN StackOverflow
                           ELSE LET r == decode_name_from(buf, pointer, pointer, <<>>,
                                                          active \cup {pointer})
                                IN  IF r.tag # "Ok" THEN r
                                    ELSE Ok([name |-> join(Append(parts, r.val.name)),
                                             consumed |-> current_pos + 2 - start_cursor])
             ELSE LET end == current_pos + length + 1
                      label == SubSeq(buf, current_pos + 2, end)
                  IN  IF end > Len(buf) THEN Panic("index out of bounds")
                      ELSE IF ~is_utf8(label, 1) THEN Panic("from_utf8")
                      ELSE decode_name_from(buf, start_cursor, end, Append(parts, label),
                                            active)

decode_name(buf, at) == decode_name_from(buf, at, at, <<>>, {at})

(***************************************************************************)
(* The inputs of the codec.                                                *)
(***************************************************************************)
Run(c, n) == [i \in 1..n |-> c]

\* labels: every string of at most 2 letters, and long runs around the
\* lengths 63/64 (the two high bits of the length byte) and 255/256 (u8)
LabelSet ==
    SeqsUpTo({97, 98}, 2) \cup {Run(97, n) : n \in {63, 64, 255, 256}}

NameLabels == SeqsUpTo(LabelSet, MaxLabels) \ {<<>>}

\* buffers: a terminator, label lengths and pointer targets, bytes with one
\* high bit set, and the pointer tag
BufferBytes == {0, 1, 2, 3, 64, 128, 192}

Buffers == SeqsUpTo(BufferBytes, MaxBuf) \ {<<>>}

\* encode_dns_name on a dotted name
Encode ==
    /\ phase = "init"
    /\ \E ls \in NameLabels :
          /\ labels' = ls
          /\ domain_name' = join(ls)
          /\ encoded' = encode_dns_name(join(ls))
    /\ phase' = "encoded"
    /\ UNCHANGED <<data, cursor, decoded>>
    /\ UNCHANGED resolverVars
    /\ UNCHANGED parserVars

\* decode_name at cursor 0 of the encoded name
DecodeEncoded ==
    /\ phase = "encoded"
    /\ data' = encoded
    /\ cursor' = 0
    /\ decoded' = decode_name(encoded, 0)
    /\ phase' = "roundtrip"
    /\ UNCHANGED <<labels, domain_name, encoded>>
    /\ UNCHANGED resolverVars
    /\ UNCHANGED parserVars

\* decode_name on a received buffer
Decode ==
    /\ phase = "init"
    /\ \E buf \in Buffers : \E at \in 0..Len(buf) :
          /\ data' = buf
          /\ cursor' = at
          /\ decoded' = decode_name(buf, at)
    /\ phase' = "decoded"
    /\ UNCHANGED <<labels, domain_name, encoded>>
    /\ UNCHANGED resolverVars
    /\ UNCHANGED parserVars

NextCodec ==
    \/ Encode
    \/ DecodeEncoded
    \/ Decode

SpecCodec == Init /\ [][NextCodec]_vars

(***************************************************************************)
(* The packet parser.  Positions count from 0 as in the source.            *)
(***************************************************************************)
UDP_DNS_RESPONSE_SIZE == 1024
DNS_HEADER_SIZE == 12
DNS_QUESTION_SIZE == 4
DNS_RECORD_SIZE == 10

\* u16::from_be_bytes(buf[pos..pos + 2])
u16_from_be_bytes(buf, pos) == buf[pos + 1] * 256 + buf[pos + 2]
\* u32::from_be_bytes(buf[pos..pos + 4]); the u32 is kept as its four base-256
\* digits, most significant first, since 2^32 - 1 is beyond TLC's integers
u32_from_be_bytes(buf, pos) == SubSeq(buf, pos + 1, pos + 4)

RecordType_try_from(value) ==
    IF value = 1 THEN "A"
    ELSE IF value = 2 THEN "NS"
    ELSE IF value = 5 THEN "CNAME"
    ELSE "NotImplemented"

Class_try_from(value) ==
    IF value = 1 THEN Ok("In") ELSE Err("Unknown class type")

DNSHeader_try_from(value) ==
    [id |-> u16_from_be_bytes(value, 0),
     flags |-> u16_from_be_bytes(value, 2),
     num_questions |-> u16_from_be_bytes(value, 4),
     num_answers |-> u16_from_be_bytes(value, 6),
     num_authorities |-> u16_from_be_bytes(value, 8),
     num_additionals |-> u16_from_be_bytes(value, 10)]

RecordDataOtherBytes(bytes) == [tag |-> "Other", bytes |-> bytes]

\* what one question moves the cursor by: current_pos += current, then
\* current_pos += constants::DNS_QUESTION_SIZE
question_consumed(name_consumed) == name_consumed + DNS_QUESTION_SIZE

\* the ? operator, and the unwinding of a panic: a failure is handed on as
\* it is, a success goes into the rest of the function
and_then(r, rest(_)) == IF r.tag # "Ok" THEN r ELSE rest(r.val)

\* &packet[from..to], which panics when the slice ends beyond the buffer
slice_check(buf, to) ==
    IF to > Len(buf) THEN Panic("index out of bounds") ELSE Ok(to)

\* one pass of the question loop of DNSPacket::try_from: the question at
\* current_pos and the bytes it takes, or the way the pass fails
parse_question(packet, current_pos) ==
    and_then(decode_name(packet, current_pos), LAMBDA n :
    and_then(slice_check(packet, current_pos + n.consumed + DNS_QUESTION_SIZE), LAMBDA to :
    and_then(Class_try_from(u16_from_be_bytes(packet, current_pos + n.consumed + 2)),
             LAMBDA class :
        Ok([entry |-> [name |-> n.name,
                       type_ |-> RecordType_try_from(
                                    u16_from_be_bytes(packet, current_pos + n.consumed)),
                       class |-> class],
            consumed |-> question_consumed(n.consumed)]))))

\* the match on the record type in DNSRecord::parse: the RecordData at pos
\* and the bytes it takes
record_data_at(buf, pos, rtype, data_length) ==
    IF rtype = "A"
    THEN and_then(slice_check(buf, pos + 4), LAMBDA to :
            Ok([data |-> RecordDataA(SubSeq(buf, pos + 1, pos + 4)), consumed |-> 4]))
    ELSE IF rtype \in {"NS", "CNAME"}
    THEN and_then(decode_name(buf, pos), LAMBDA n :
            Ok([data |-> RecordDataNS(n.name), consumed |-> n.consumed]))
    ELSE and_then(slice_check(buf, pos + data_length), LAMBDA to :
            Ok([data |-> RecordDataOtherBytes(SubSeq(buf, pos + 1, pos + data_length)),
                consumed |-> data_length]))

\* DNSRecord::parse((data, cursor)), on the bytes
DNSRecord_parse_at(buf, at) ==
    and_then(decode_name(buf, at), LAMBDA n :
    and_then(slice_check(buf, at + n.consumed + DNS_RECORD_SIZE), LAMBDA to :
    and_then(record_data_at(buf, to,
                            RecordType_try_from(u16_from_be_bytes(buf, at + n.consumed)),
                            u16_from_be_bytes(buf, at + n.consumed + 8)),
             LAMBDA rdata :
        Ok([entry |-> [name |-> n.name,
                       type_ |-> RecordType_try_from(
                                    u16_from_be_bytes(buf, at + n.consumed)),
                       class |-> u16_from_be_bytes(buf, at + n.consumed + 2),
                       ttl |-> u32_from_be_bytes(buf, at + n.consumed + 4),
                       data |-> rdata.data],
            consumed |-> n.consumed + DNS_RECORD_SIZE + rdata.consumed]))))

\* for _ in 0..header.num_questions()
RECURSIVE parse_questions(_, _, _, _)
parse_questions(packet, current_pos, count, acc) ==
    IF count = 0 THEN Ok([entries |-> acc, current_pos |-> current_pos])
    ELSE and_then(parse_question(packet, current_pos), LAMBDA q :
            parse_questions(packet, current_pos + q.consumed, count - 1,
                            Append(acc, q.entry)))

\* for _ in 0..header.num_answers() (and num_authorities, num_additionals)
RECURSIVE parse_records(_, _, _, _)
parse_records(packet, current_pos, count, acc) ==
    IF count = 0 THEN Ok([entries |-> acc, current_pos |-> current_pos])
    ELSE and_then(DNSRecord_parse_at(packet, current_pos), LAMBDA r :
            parse_records(packet, current_pos + r.consumed, count - 1,
                          Append(acc, r.entry)))

\* a faulty variant of sections_from: the additionals are read before the authorities
sections_from_swapped(packet, header, questions) ==
    and_then(parse_records(packet, questions.current_pos, header.num_answers, <<>>),
             LAMBDA ans :
    and_then(parse_records(packet, ans.current_pos, header.num_additionals, <<>>),
             LAMBDA add :
    and_then(parse_records(packet, add.current_pos, header.num_authorities, <<>>),
             LAMBDA aut :
        Ok([header |-> header,
            questions |-> questions.entries,
            answers |-> ans.entries,
            authorities |-> aut.entries,
            additionals |-> add.entries]))))

\* the three record loops of DNSPacket::try_from, after the questions
sections_from(packet, header, questions) ==
    and_then(parse_records(packet, questions.current_pos, header.num_answers, <<>>),
             LAMBDA ans :
    and_then(parse_records(packet, ans.current_pos, header.num_authorities, <<>>),
             LAMBDA aut :
    and_then(parse_records(packet, aut.current_pos, header.num_additionals, <<>>),
             LAMBDA add :
        Ok([header |-> header,
            questions |-> questions.entries,
            answers |-> ans.entries,
            authorities |-> aut.entries,
            additionals |-> add.entries]))))

\* DNSPacket::parse(data), that is DNSPacket::try_from(data), on the bytes
DNSPacket_parse(packet) ==
    and_then(slice_check(packet, DNS_HEADER_SIZE), LAMBDA to :
    and_then(parse_questions(packet, DNS_HEADER_SIZE,
                             u16_from_be_bytes(packet, 4), <<>>),
             LAMBDA qs :
        sections_from(packet, DNSHeader_try_from(SubSeq(packet, 1, DNS_HEADER_SIZE)), qs)))

(***************************************************************************)
(* The inputs of the parser: what a nameserver puts on the wire.           *)
(***************************************************************************)
be16(n) == <<n \div 256, n % 256>>
be32(n) == <<0, 0>> \o be16(n)

NameA == <<1, 97, 0>>          \* "a"
NameRoot == <<0>>
NamePointer == <<192, 12>>     \* a pointer to offset 12, where the first question lies

\* questions: class IN and a class the parser rejects
MsgQuestions == [name : {NameA}, type_ : {1}, class : {1, 3}]

\* records: type A with RDLENGTH 4, 0 and 6, NS and CNAME with a compressed
\* and a plain name, and a type the parser keeps as opaque bytes
MsgRecords ==
    {[name |-> NamePointer, type_ |-> 1, rdlength |-> 4, rdata |-> AddrA],
     [name |-> NameRoot, type_ |-> 1, rdlength |-> 4, rdata |-> AddrB],
     [name |-> NamePointer, type_ |-> 1, rdlength |-> 0, rdata |-> <<>>],
     [name |-> NamePointer, type_ |-> 1, rdlength |-> 6, rdata |-> AddrA \o <<7, 7>>],
     [name |-> NamePointer, type_ |-> 2, rdlength |-> 2, rdata |-> NamePointer],
     [name |-> NamePointer, type_ |-> 5, rdlength |-> 3, rdata |-> NameA],
     [name |-> NameRoot, type_ |-> 16, rdlength |-> 2, rdata |-> <<7, 7>>]}

\* a message: the counts its header declares, and the entries it holds
Messages ==
    [qd : 0..1,
     an : 0..(MaxRecords + 1), ns : 0..(MaxRecords + 1), ar : 0..(MaxRecords + 1),
     questions : SeqsUpTo(MsgQuestions, 1),
     records : SeqsUpTo(MsgRecords, MaxRecords)]

QuestionBytes(q) == q.name \o be16(q.type_) \o be16(q.class)
RecordBytes(r) ==
    r.name \o be16(r.type_) \o be16(1) \o be32(300) \o be16(r.rdlength) \o r.rdata

RECURSIVE Flatten(_)
Flatten(pieces) ==
    IF pieces = <<>> THEN <<>> ELSE Head(pieces) \o Flatten(Tail(pieces))

HeaderBytes(m) ==
    be16(43981) \o be16(33792) \o be16(m.qd) \o be16(m.an) \o be16(m.ns) \o be16(m.ar)

MessageBytes(m) ==
    HeaderBytes(m)
        \o Flatten([i \in DOMAIN m.questions |-> QuestionBytes(m.questions[i])])
        \o Flatten([i \in DOMAIN m.records |-> RecordBytes(m.records[i])])

\* let mut response_buffer = [0; size], filled from the front by recv_from
Received(bytes, size) == bytes \o [i \in 1..(size - Len(bytes)) |-> 0]

\* the slice handed to the parser: send_query hands over the whole
\* response_buffer, DNSPacket::parse takes any slice, here the bytes received
BufferSizes(m) == {Len(MessageBytes(m)), UDP_DNS_RESPONSE_SIZE}

\* DNSPacket::try_from on a received message
ParsePacket ==
    /\ pphase = "init"
    /\ \E m \in Messages :
          /\ m.an + m.ns + m.ar <= MaxRecords + 1
          /\ \E size \in BufferSizes(m) :
             \E buf \in {Received(MessageBytes(m), size)} :
                /\ msg' = m
                /\ response_buffer' = buf
                /\ parsed' = DNSPacket_parse(buf)
    /\ parse_cursor' = 0
    /\ pphase' = "packet"
    /\ UNCHANGED resolverVars
    /\ UNCHANGED codecVars

\* DNSRecord::parse on the first record of a received message
ParseRecord ==
    /\ pphase = "init"
    /\ \E m \in Messages :
          /\ m.records # <<>>
          /\ m.qd = Len(m.questions) /\ m.an = Len(m.records) /\ m.ns = 0 /\ m.ar = 0
          /\ \E size \in BufferSizes(m) :
             \E buf \in {Received(MessageBytes(m), size)} :
             \E at \in {DNS_HEADER_SIZE
                            + Len(Flatten([i \in DOMAIN m.questions |->
                                              QuestionBytes(m.questions[i])]))} :
                /\ msg' = m
                /\ response_buffer' = buf
                /\ parse_cursor' = at
                /\ parsed' = DNSRecord_parse_at(buf, at)
    /\ pphase' = "record"
    /\ UNCHANGED resolverVars
    /\ UNCHANGED codecVars

NextParse ==
    \/ ParsePacket
    \/ ParseRecord

SpecParse == Init /\ [][NextParse]_vars

(***************************************************************************)
(* Properties of the resolution engine.                                    *)
(***************************************************************************)
GotPacket == lastResp.kind = "packet"
Answers == lastResp.packet.answers
Authorities == lastResp.packet.authorities
Additionals == lastResp.packet.additionals

HasType(records, t) == \E i \in DOMAIN records : records[i].type_ = t

FirstOfType(records, t) ==
    records[CHOOSE i \in DOMAIN records :
                /\ records[i].type_ = t
                /\ \A j \in 1..(i - 1) : records[j].type_ # t]

ReturnedOk == lastRet # None /\ lastRet.val.tag = "Ok"

\* C1: a response with a type-A record in its answer section makes the
\* invocation that received it return the address of the first such record,
\* whatever else the response holds; the invocation is off the stack, and
\* when it is the top-level call nothing more can be sent.
C1_FirstAnswerWins ==
    (GotPacket /\ HasType(Answers, "A")) =>
        LET ip == FirstOfType(Answers, "A").data.ip
        IN  /\ lastRet = Some(Ok(ip))
            /\ Len(stack) = lastQuery.depth - 1
            /\ (lastQuery.depth = 1 =>
                    /\ status = "returned"
                    /\ result = Some(Ok(ip))
                    /\ ~ENABLED SendQuery)

\* C1 witness: two type-A answers with different addresses, authority or
\* additional records besides, and the top-level call returned the first.
C1_Witness ==
    /\ GotPacket
    /\ Len(Answers) = 2
    /\ Answers[1].type_ = "A" /\ Answers[2].type_ = "A"
    /\ Answers[1].data.ip # Answers[2].data.ip
    /\ status = "returned"
    /\ result = Some(Ok(Answers[1].data.ip))

\* C2 as stated: a returned address is the data of an answer record whose
\* type is the requested record type and whose owner is the queried domain.
C2_Original ==
    ReturnedOk =>
        /\ GotPacket
        /\ \E i \in DOMAIN Answers :
              /\ Answers[i].type_ = lastQuery.record_type
              /\ Answers[i].name = lastQuery.domain_name
              /\ Answers[i].data = RecordDataA(lastRet.val.val)

\* C2 amended: a returned address is the data of the first type-A record of
\* the answer section of the last response; neither the requested record
\* type nor the record's owner name is compared.
C2_ReturnedIsFirstA ==
    ReturnedOk =>
        /\ GotPacket
        /\ HasType(Answers, "A")
        /\ FirstOfType(Answers, "A").data = RecordDataA(lastRet.val.val)

\* C2 witness: resolve(domain, NS) returned the address of a type-A record
\* owned by another name.
C2_Witness ==
    /\ ReturnedOk
    /\ GotPacket
    /\ lastQuery.record_type = "NS"
    /\ HasType(Answers, "A")
    /\ FirstOfType(Answers, "A").name # lastQuery.domain_name
    /\ result = Some(Ok(FirstOfType(Answers, "A").data.ip))

GlueResponse == GotPacket /\ ~HasType(Answers, "A") /\ HasType(Additionals, "A")

\* C3: after a response with no type-A answer and a type-A additional record,
\* the same invocation goes on, and the next query issued is for the same
\* domain and record type, sent to the first such record's address, by the
\* same invocation (no nested resolution was started), whatever the
\* authority section holds.
C3_GlueNextQuery ==
    /\ [](GlueResponse => status = "sending" /\ Len(stack) = lastQuery.depth)
    /\ [][(GlueResponse /\ nq' = nq + 1) =>
            lastQuery' = [ip |-> FirstOfType(Additionals, "A").data.ip,
                          domain_name |-> lastQuery.domain_name,
                          record_type |-> lastQuery.record_type,
                          depth |-> lastQuery.depth]]_vars

\* C3 witness: a glue response that also holds an NS authority record, the
\* invocation about to query the glue address.
C3_Witness ==
    /\ GlueResponse
    /\ HasType(Authorities, "NS")
    /\ Additionals[Len(Additionals)].type_ = "A"
    /\ status = "sending"
    /\ nq < MaxQueries
    /\ Top.name_server_ip = FirstOfType(Additionals, "A").data.ip
    /\ Top.name_server_ip # lastQuery.ip

ReferralResponse ==
    /\ GotPacket
    /\ ~HasType(Answers, "A")
    /\ ~HasType(Additionals, "A")
    /\ HasType(Authorities, "NS")

\* C4 as stated: after a response with no type-A answer, no type-A additional
\* record and an NS authority record, the next query is the first query of a
\* nested resolution of the first NS record's hostname for type A, sent to
\* the root; and the query after a nested resolution returned an address is
\* the caller's, for its own domain and type, sent to exactly that address.
C4_Original ==
    /\ [][(ReferralResponse /\ nq' = nq + 1) =>
            lastQuery' = [ip |-> ROOT_SERVER,
                          domain_name |-> FirstOfType(Authorities, "NS").data.name,
                          record_type |-> "A",
                          depth |-> lastQuery.depth + 1]]_vars
    /\ [][(ReturnedOk /\ nq' = nq + 1) =>
            lastQuery' = [ip |-> lastRet.val.val,
                          domain_name |-> stack[lastQuery.depth - 1].domain_name,
                          record_type |-> stack[lastQuery.depth - 1].record_type,
                          depth |-> lastQuery.depth - 1]]_vars

\* C5 as stated: a response with no type-A answer, no type-A additional
\* record and no NS authority record makes resolve return a "no progress"
\* error: the process is not aborted and nothing more is sent.
C5_Original ==
    (/\ GotPacket
     /\ ~HasType(Answers, "A")
     /\ ~HasType(Additionals, "A")
     /\ ~HasType(Authorities, "NS")) =>
        /\ status = "returned"
        /\ result # None
        /\ result.val.tag = "Err"
        /\ ~ENABLED SendQuery

\* C6 as stated: a transport failure or an unparsable response at any hop,
\* nested or not, makes the top-level resolve return an error value: no
\* abort, no address, no query after the failing hop.
C6_Original ==
    lastResp.kind \in {"transport_failure", "parse_panic", "parse_err"} =>
        /\ status = "returned"
        /\ result # None
        /\ result.val.tag = "Err"
        /\ ~ENABLED SendQuery

(***************************************************************************)
(* Properties of the name codec.                                           *)
(***************************************************************************)
\* C7: a name made of one or more labels of 1 to 63 bytes joined by '.' is
\* what decode_name returns at cursor 0 of its encoding.
C7_RoundTrip ==
    (phase = "roundtrip" /\ \A i \in DOMAIN labels : Len(labels[i]) \in 1..63) =>
        /\ decoded.tag = "Ok"
        /\ decoded.val.name = domain_name

\* C7 witness: a two-label name with a label of 63 bytes went round.
C7_Witness ==
    /\ phase = "roundtrip"
    /\ Len(labels) = 2
    /\ Len(labels[1]) = 63
    /\ labels[2] = <<97, 98>>
    /\ decoded.tag = "Ok"
    /\ decoded.val.name = labels[1] \o <<DOT>> \o labels[2]

\* where the i-th label's length byte lies in the encoding, counting from 0
RECURSIVE LabelOffset(_)
LabelOffset(i) ==
    IF i = 1 THEN 0 ELSE LabelOffset(i - 1) + Len(labels[i - 1]) + 1

\* C8: for a name whose labels have at most 255 bytes each, the encoding is,
\* for each label in order, one byte holding its length and then its bytes,
\* and then one 0 byte; there is nothing else in it.
C8_EncodeLayout ==
    (phase \in {"encoded", "roundtrip"} /\ \A i \in DOMAIN labels : Len(labels[i]) <= 255) =>
        /\ Len(encoded) = LabelOffset(Len(labels) + 1) + 1
        /\ encoded[Len(encoded)] = 0
        /\ \A i \in DOMAIN labels :
              /\ encoded[LabelOffset(i) + 1] = Len(labels[i])
              /\ SubSeq(encoded, LabelOffset(i) + 2, LabelOffset(i) + 1 + Len(labels[i]))
                    = labels[i]

\* C8 witness: a label of 255 bytes followed by a second label.
C8_Witness ==
    /\ phase = "encoded"
    /\ Len(labels) = 2
    /\ Len(labels[1]) = 255
    /\ labels[2] = <<97, 98>>
    /\ encoded[1] = 255
    /\ SubSeq(encoded, 257, 260) = <<2, 97, 98, 0>>

\* the plain labels (length bytes 1..63, the label inside the buffer) read
\* from position pos, and the position after the last of them
RECURSIVE PlainLabels(_, _)
PlainLabels(buf, pos) ==
    IF pos < Len(buf) /\ buf[pos + 1] \in 1..63 /\ pos + buf[pos + 1] + 1 <= Len(buf)
    THEN <<SubSeq(buf, pos + 2, pos + buf[pos + 1] + 1)>>
            \o PlainLabels(buf, pos + buf[pos + 1] + 1)
    ELSE <<>>

RECURSIVE AfterPlainLabels(_, _)
AfterPlainLabels(buf, pos) ==
    IF pos < Len(buf) /\ buf[pos + 1] \in 1..63 /\ pos + buf[pos + 1] + 1 <= Len(buf)
    THEN AfterPlainLabels(buf, pos + buf[pos + 1] + 1)
    ELSE pos

\* a 2-byte compression pointer lies at position pos
PointerAt(buf, pos) == pos + 1 < Len(buf) /\ buf[pos + 1] >= 192
PointerTarget(buf, pos) == (buf[pos + 1] - 192) * 256 + buf[pos + 2]

\* the labels of a decoded name: none for the root name
LabelsOfName(name) == IF name = <<>> THEN <<>> ELSE split(name)

\* C9 as stated: k plain labels and then a pointer to an earlier offset
\* decode to the k labels followed by the labels of the name at the target,
\* and bytes_consumed is the bytes of the k labels plus 2.
C9_Original ==
    LET x == AfterPlainLabels(data, cursor)
        target == decode_name(data, PointerTarget(data, x))
    IN  (/\ phase = "decoded"
         /\ PointerAt(data, x)
         /\ PointerTarget(data, x) < x
         /\ target.tag = "Ok") =>
            decoded = Ok([name |-> join(PlainLabels(data, cursor)
                                           \o LabelsOfName(target.val.name)),
                          consumed |-> (x - cursor) + 2])

\* C10 as stated: decode_name ends on every buffer and cursor, and a self or
\* forward pointer (one at offset X whose target is >= X) makes it return a
\* malformed-compression error.
C10_Original ==
    LET x == AfterPlainLabels(data, cursor)
    IN  phase = "decoded" =>
            /\ decoded.tag # "StackOverflow"
            /\ (PointerAt(data, x) /\ PointerTarget(data, x) >= x) =>
                    decoded = Err("MalformedCompression")


(***************************************************************************)
(* Properties of the packet parser.                                        *)
(***************************************************************************)
ParsedPacket == pphase = "packet"
ParsedRecord == pphase = "record"

\* the header of the message declares more entries than the message holds
DeclaresMore(m) ==
    \/ m.qd > Len(m.questions)
    \/ m.an + m.ns + m.ar > Len(m.records)

\* C11 as stated: parsing a response whose header declares more entries than
\* the received bytes contain returns a Truncated error (no panic, no packet)
C11_Original ==
    (ParsedPacket /\ DeclaresMore(msg)) => parsed = Err("Truncated")


\* the shared cursor before entry k + 1 (questions first, then the records):
\* it starts at DNS_HEADER_SIZE and moves on by what each entry before took
RECURSIVE CursorAfter(_, _, _)
CursorAfter(buf, qd, k) ==
    IF k = 0 THEN DNS_HEADER_SIZE
    ELSE LET before == CursorAfter(buf, qd, k - 1)
         IN  IF k <= qd
             THEN before + decode_name(buf, before).val.consumed + DNS_QUESTION_SIZE
             ELSE before + DNSRecord_parse_at(buf, before).val.consumed

\* section is records first + 1 .. first + Len(section) of the packet
RecordsFrom(buf, qd, first, section) ==
    \A i \in 1..Len(section) :
        section[i] = DNSRecord_parse_at(buf, CursorAfter(buf, qd, qd + first + i - 1)).val.entry

\* C12: whenever DNSPacket parsing succeeds, the four sections are as long
\* as the header's four counts say, and their entries are the ones decoded
\* in the order questions, answers, authorities, additionals from one cursor
\* that starts at byte 12 and advances by each entry's consumed bytes
C12_CountsAndOrder ==
    (ParsedPacket /\ parsed.tag = "Ok") =>
        LET p == parsed.val
            h == p.header
        IN  /\ h.num_questions = msg.qd /\ h.num_answers = msg.an
            /\ h.num_authorities = msg.ns /\ h.num_additionals = msg.ar
            /\ Len(p.questions) = h.num_questions
            /\ Len(p.answers) = h.num_answers
            /\ Len(p.authorities) = h.num_authorities
            /\ Len(p.additionals) = h.num_additionals
            /\ \A i \in 1..Len(p.questions) :
                  p.questions[i]
                      = parse_question(response_buffer,
                                       CursorAfter(response_buffer, msg.qd, i - 1)).val.entry
            /\ RecordsFrom(response_buffer, msg.qd, 0, p.answers)
            /\ RecordsFrom(response_buffer, msg.qd, msg.an, p.authorities)
            /\ RecordsFrom(response_buffer, msg.qd, msg.an + msg.ns, p.additionals)

\* a referral has been parsed: a question, an NS record among the authorities
\* and its glue among the additionals
C12_Witness ==
    /\ ParsedPacket /\ parsed.tag = "Ok"
    /\ msg.qd = 1 /\ msg.an = 0 /\ msg.ns = 1 /\ msg.ar = 1
    /\ Len(msg.questions) = 1 /\ Len(msg.records) = 2
    /\ parsed.val.authorities[1].data = RecordDataNS(<<97>>)
    /\ parsed.val.additionals[1].data = RecordDataA(AddrA)


(***************************************************************************)
(* The reading of a length byte.                                           *)
(***************************************************************************)
\* the first length byte decode_name examined, when the cursor is in the buffer
FirstLength == data[cursor + 1]

\* the result is the one of following the two bytes at the cursor as a
\* pointer: the name at the target, two bytes consumed
FollowedAsPointer ==
    /\ cursor + 1 < Len(data)
    /\ LET target == decode_name(data, pointer_of(data[cursor + 1], data[cursor + 2]))
       IN  /\ target.tag = "Ok"
           /\ decoded = Ok([name |-> target.val.name, consumed |-> 2])

\* C13 as stated: a non-zero length byte is read as a compression pointer
\* only when it is >= 0xC0 and as a label length when it is < 0x40, and a
\* byte with exactly one high bit set (0x40-0xBF) is never followed as a pointer
C13_Original ==
    (phase = "decoded" /\ cursor < Len(data) /\ FirstLength # 0) =>
        /\ is_pointer(FirstLength) => FirstLength >= 192
        /\ FirstLength < 64 => ~is_pointer(FirstLength)
        /\ (FirstLength >= 64 /\ FirstLength < 192) => ~FollowedAsPointer


(***************************************************************************)
(* Referral after referral.                                                *)
(***************************************************************************)
Settled == status = "returned"
QueryInFlight == status = "receiving"
StackOverflowed == status = "stack overflow"

\* the last response is a referral by NS record alone, with no glue
NestingReferral ==
    /\ GotPacket
    /\ get_name_server_ip(lastResp.packet) = None
    /\ get_name_server(lastResp.packet) # None

FirstRecord == msg.records[1]

\* C15 as stated: DNSRecord::parse on a type-A record (its name decodable)
\* whose RDLENGTH is not 4 returns an error; an A record, with the cursor moved on by the name bytes
\* + 10 + 4, comes out only when RDLENGTH is 4
C15_Original ==
    (/\ ParsedRecord
     /\ FirstRecord.type_ = 1
     /\ decode_name(response_buffer, parse_cursor).tag = "Ok") =>
        /\ FirstRecord.rdlength # 4 => parsed.tag = "Err"
        /\ (parsed.tag = "Ok" /\ parsed.val.entry.data.tag = "A") =>
                FirstRecord.rdlength = 4

==============================================================================
